---------------------------- MODULE Spec2Model ----------------------------
(***************************************************************************)
(* Model of kube::runtime::Informer (src/kube/src/runtime/informer.rs).    *)
(*                                                                         *)
(* State: the shared cursor `version` (Arc<Mutex<String>>), the shared     *)
(* flag `needs_resync` (Arc<Mutex<bool>>), the two futures::lock::Mutex    *)
(* locks, the position of the task running poll(), the position of the    *)
(* task consuming the stream poll() returned, and the position of another *)
(* task calling version() / reset() / set_version().                       *)
(*                                                                         *)
(* A Rust String is modelled as a sequence of one-character strings.  A    *)
(* u32 is modelled as two 16-bit limbs [hi, lo] (value = hi * 65536 + lo)  *)
(* so that the arithmetic of u32::from_str and u32::to_string keeps its    *)
(* 32-bit width.                                                           *)
(***************************************************************************)
EXTENDS Integers, Sequences, FiniteSets, TLC

\* ------------------------------------------------------------------ bounds
\* Events one stream can deliver before the server closes it.
MaxEvents == 3
\* Events of the single stream of the ingestion specification.
MaxIngest == 3
\* Informer values alive at once (new()'s and its clones).
MaxHandles == 3

\* ------------------------------------------------------- program constants
\* 0.to_string(): the zero cursor of new() and reset().
ZeroVersion == <<"0">>
\* The status code of "410 Gone".
GoneCode == 410
\* One limb of a u32: 2^16.
Limb == 65536

\* ---------------------------------------------------------------- strings
DigitChars == <<"0", "1", "2", "3", "4", "5", "6", "7", "8", "9">>

IsDigit(c) == \E i \in 1..10 : DigitChars[i] = c

\* char::to_digit(10)
DigitVal(c) == (CHOOSE i \in 1..10 : DigitChars[i] = c) - 1

\* ------------------------------------------------------------------- u32
\* result.checked_mul(10): None on overflow of 32 bits.
CheckedMul10(x) ==
    LET lo10 == x.lo * 10
        hi10 == x.hi * 10 + (lo10 \div Limb)
    IN  IF hi10 >= Limb THEN [ok |-> FALSE]
        ELSE [ok |-> TRUE, hi |-> hi10, lo |-> lo10 % Limb]

\* result.checked_add(d), d a digit: None on overflow of 32 bits.
CheckedAdd(x, d) ==
    LET lo1 == x.lo + d
        hi1 == x.hi + (lo1 \div Limb)
    IN  IF hi1 >= Limb THEN [ok |-> FALSE]
        ELSE [ok |-> TRUE, hi |-> hi1, lo |-> lo1 % Limb]

\* The digit loop of u32::from_str: every character must be a digit, and
\* result = result * 10 + digit must not overflow.
RECURSIVE ParseDigits(_, _)
ParseDigits(acc, s) ==
    IF s = <<>> THEN acc
    ELSE IF ~IsDigit(Head(s)) THEN [ok |-> FALSE]
    ELSE LET m == CheckedMul10(acc)
         IN  IF ~m.ok THEN [ok |-> FALSE]
             ELSE LET a == CheckedAdd(m, DigitVal(Head(s)))
                  IN  IF ~a.ok THEN [ok |-> FALSE]
                      ELSE ParseDigits(a, Tail(s))

\* u32::from_str(s): Err on the empty string, on a lone sign, on "-", on any
\* non-digit and on overflow; one leading "+" is accepted.
U32FromStr(s) ==
    LET digits == IF s # <<>> /\ Head(s) = "+" THEN Tail(s) ELSE s
    IN  IF digits = <<>> THEN [ok |-> FALSE]
        ELSE ParseDigits([ok |-> TRUE, hi |-> 0, lo |-> 0], digits)

\* x / 10 and x % 10 on the two limbs.
DivMod10(x) ==
    LET t == (x.hi % 10) * Limb + x.lo
    IN  [q |-> [ok |-> TRUE, hi |-> x.hi \div 10, lo |-> t \div 10], r |-> t % 10]

\* u32::to_string(): the decimal rendering, no sign, no leading zeros.
RECURSIVE U32ToString(_)
U32ToString(x) ==
    LET dm == DivMod10(x)
        last == <<DigitChars[dm.r + 1]>>
    IN  IF dm.q.hi = 0 /\ dm.q.lo = 0 THEN last
        ELSE U32ToString(dm.q) \o last

U32Leq(a, b) == a.hi < b.hi \/ (a.hi = b.hi /\ a.lo <= b.lo)

\* std::cmp::max(nvu, cu)
U32Max(a, b) == IF U32Leq(a, b) THEN b ELSE a


\* -------------------------------------------------------------- the merge
\* The merge with the integer comparison left out.
MergeVersion_Opaque(cur, nv) == nv

\* Lines 136-143: both sides parse as u32 -> the rendering of the larger one;
\* otherwise the incoming string, verbatim.
MergeVersion(cur, nv) ==
    LET nvu == U32FromStr(nv)
        cu  == U32FromStr(cur)
    IN  IF nvu.ok /\ cu.ok THEN U32ToString(U32Max(nvu, cu)) ELSE nv

\* ------------------------------------------------------------ the inputs
\* Meta::resource_ver(o) = None.  No String is modelled by this value: the
\* elements of a modelled String are single characters.
None == <<"None">>

\* What a read of the String's memory yields while a writer is inside its
\* critical section (pointer, length and capacity are being replaced).
Torn == <<"Torn">>


\* The items of the streams of the serialized poll loop: every kind of
\* object event with each of these versions or none, both error codes, Err.
SerialVersions == {<<"5">>, <<"7">>, <<"v", "2">>}

\* Arguments the other task passes to set_version().
SetArgs == {<<"6">>}

\* Resource versions of the ingestion specification: small and large
\* integers, the edges of u32, signs, leading zeros, opaque tokens, "".
IngestVersions ==
    { <<"0">>, <<"5">>, <<"7">>, <<"0", "7">>, <<"1", "0">>, <<"+", "5">>,
      <<"4", "2", "9", "4", "9", "6", "7", "2", "9", "5">>,
      <<"4", "2", "9", "4", "9", "6", "7", "2", "9", "6">>,
      <<"-", "1">>, <<"v", "2">>, <<"a">>, <<>> }

ObjectKinds == {"Added", "Modified", "Deleted"}

\* Result<WatchEvent<K>>: Ok(Added|Modified|Deleted(o)), Ok(Error(e)), Err(e).
ObjectEvents(vs) == [kind : ObjectKinds, rv : vs \cup {None}, code : {0}]
\* Status codes of WatchEvent::Error: 410 Gone and another one.
ErrorCodes == {GoneCode, 500}
OtherCode == CHOOSE c \in ErrorCodes : c # GoneCode
ErrorEvents == [kind : {"Error"}, rv : {None}, code : ErrorCodes]
ErrItems == [kind : {"Err"}, rv : {None}, code : {0}]
Events(vs) == ObjectEvents(vs) \cup ErrorEvents \cup ErrItems

Event(k, v, c) == [kind |-> k, rv |-> v, code |-> c]

\* The items the server sends on the streams of the poll loop: one of each
\* arm of the match of lines 131-162, with and without a resource version.
PollEvents ==
    { Event("Added", <<"5">>, 0), Event("Modified", <<"7">>, 0),
      Event("Deleted", None, 0), Event("Error", None, GoneCode),
      Event("Error", None, OtherCode), Event("Err", None, 0) }

SerialEvents == Events(SerialVersions)

\* The items of the stream of the ingestion specification.
IngestEvents ==
    [kind : {"Added"}, rv : IngestVersions, code : {0}]
        \cup { Event("Modified", <<"7">>, 0), Event("Deleted", None, 0),
               Event("Error", None, OtherCode), Event("Err", None, 0) }

\* Cursors the stream of the ingestion specification can start at: "0", a
\* version merged by an earlier stream, an opaque token given to set_version().
IngestStarts == {ZeroVersion, <<"7">>, <<"v", "2">>}

NoEvent == [kind |-> "none", rv |-> None, code |-> 0]

\* ---------------------------------------------------------------- state
VARIABLES
    version,          \* Informer.version: the String inside the Mutex
    vlock,            \* holder of the version Mutex, or "free"
    needs_resync,     \* Informer.needs_resync: the bool inside the Mutex
    rlock,            \* holder of the needs_resync Mutex, or "free"
    ppc,              \* poll(): the line the call is at, or "idle"
    resource_version, \* poll(): local `resource_version`
    entered,          \* this poll() found needs_resync set at line 101
    slept,            \* this poll() completed delay_for at line 104
    requests,         \* watch requests issued by this poll()
    reqVersion,       \* starting version of the last watch request
    result,           \* how the last poll() returned: "none", "ok", "err"
    snapVersion,      \* the cursor when the last poll() was called
    snapFlag,         \* needs_resync when the last poll() was called
    streamOpen,       \* a stream returned by poll() is live
    spc,              \* interception closure: the line it is at, or "idle"
    event,            \* closure: `event`
    current,          \* closure: `current`
    u,                \* closure: `u`
    delivered,        \* items the underlying watch stream produced
    yielded,          \* items the returned stream yielded
    epc,              \* other task: the call it is in, or "idle"
    earg,             \* other task: argument of set_version()
    eret,             \* other task: last value version() returned
    resetSeen,        \* "done": reset() completed; "polling": the next poll()
                      \* is running; "issued": it issued its request
    heapVersion,      \* the Arc<Mutex<String>> allocations, in order
    heapFlag,         \* the Arc<Mutex<bool>> allocations, in order
    handles,          \* the Informer values: new()'s, then its clones
    closure,          \* the Arcs the last returned stream's closure holds
    hret,             \* last version() through a handle: who, what
    hreq,             \* last watch request through a handle
    lastCursor,       \* the value of the last cursor write through any handle
    lastFlag          \* the value of the last flag write through any handle

shared == <<version, vlock, needs_resync, rlock>>
pollv  == <<ppc, resource_version, entered, slept, requests,
            reqVersion, result, snapVersion, snapFlag>>
streamv == <<streamOpen, spc, event, current, u, delivered, yielded>>
extv   == <<epc, earg, eret>>
ghostv == <<resetSeen>>
handlev == <<heapVersion, heapFlag, handles, closure, hret, hreq,
             lastCursor, lastFlag>>
vars   == <<shared, pollv, streamv, extv, ghostv, handlev>>

\* Line 42: ListParams::default(); the argument of params() is another value.
DefaultParams == "default"
ParamsArgs == {"lp"}
NoClosure == [version |-> 0, needs_resync |-> 0]
NoReturn == [handle |-> 0, value |-> None]
NoRequest == [handle |-> 0, version |-> None, params |-> DefaultParams]

\* Lines 39-46: new() makes one allocation for the cursor and one for the
\* flag, and the first Informer value points at both.
InitHandles ==
    /\ heapVersion = <<ZeroVersion>>
    /\ heapFlag = <<FALSE>>
    /\ handles = <<[version |-> 1, needs_resync |-> 1,
                    params |-> DefaultParams]>>
    /\ closure = NoClosure
    /\ hret = NoReturn
    /\ hreq = NoRequest
    /\ lastCursor = ZeroVersion
    /\ lastFlag = FALSE

\* Informer::new(): cursor "0", flag false, nothing running.
Init ==
    /\ version = ZeroVersion
    /\ vlock = "free"
    /\ needs_resync = FALSE
    /\ rlock = "free"
    /\ ppc = "idle"
    /\ resource_version = None
    /\ entered = FALSE
    /\ slept = FALSE
    /\ requests = 0
    /\ reqVersion = None
    /\ result = "none"
    /\ snapVersion = None
    /\ snapFlag = FALSE
    /\ streamOpen = FALSE
    /\ spc = "idle"
    /\ event = NoEvent
    /\ current = None
    /\ u = None
    /\ delivered = <<>>
    /\ yielded = <<>>
    /\ epc = "idle"
    /\ earg = None
    /\ eret = None
    /\ resetSeen = "none"
    /\ InitHandles

\* ------------------------------------------------------- the two Mutexes
\* futures::lock::Mutex::lock().await completes when nobody holds the lock.
VersionLockFree == vlock = "free"
ResyncLockFree == rlock = "free"

\* The String a holder of the version lock reads.
LoadVersion == IF vlock = "free" THEN version ELSE Torn


\* ------------------------------------------------------------------ poll()
\* The caller invokes poll() (line 95).
PollCall ==
    /\ ppc = "idle"
    /\ ppc' = "l100"
    /\ entered' = FALSE
    /\ slept' = FALSE
    /\ requests' = 0
    /\ result' = "none"
    /\ reqVersion' = None
    /\ snapVersion' = version
    /\ snapFlag' = needs_resync
    /\ resetSeen' = CASE resetSeen = "done" -> "polling"
                       [] resetSeen = "issued" -> "none"
                       [] OTHER -> resetSeen
    /\ UNCHANGED <<shared, resource_version, streamv, extv>>
    /\ UNCHANGED handlev

\* Line 100: let mut needs_resync = self.needs_resync.lock().await;
PollLockResync ==
    /\ ppc = "l100"
    /\ ResyncLockFree
    /\ rlock' = "poll"
    /\ ppc' = "l101"
    /\ UNCHANGED <<version, vlock, needs_resync, resource_version, entered, slept, requests, reqVersion, result,
                   snapVersion, snapFlag, streamv, extv, ghostv>>
    /\ UNCHANGED handlev

\* The backoff taken whatever the flag says.
PollCheckResync_AlwaysSleep ==
    /\ ppc = "l101"
    /\ ppc' = "l104"
    /\ entered' = needs_resync
    /\ UNCHANGED <<shared, resource_version, slept, requests, reqVersion, result,
                   snapVersion, snapFlag, streamv, extv, ghostv>>
    /\ UNCHANGED handlev

\* The guard dropped before the backoff instead of at line 111.
PollCheckResync_Unlocked ==
    /\ ppc = "l101"
    /\ ppc' = IF needs_resync THEN "l104" ELSE "l115"
    /\ entered' = (entered \/ needs_resync)
    /\ rlock' = "free"
    /\ UNCHANGED <<version, vlock, needs_resync, resource_version, slept, requests, reqVersion, result,
                   snapVersion, snapFlag, streamv, extv, ghostv>>
    /\ UNCHANGED handlev

\* The flag ignored: no backoff, no reset, the flag left as it is.
PollCheckResync_Skip ==
    /\ ppc = "l101"
    /\ ppc' = "l115"
    /\ rlock' = "free"
    /\ UNCHANGED <<version, vlock, needs_resync, resource_version, entered, slept, requests, reqVersion, result,
                   snapVersion, snapFlag, streamv, extv, ghostv>>
    /\ UNCHANGED handlev

\* Line 101: if *needs_resync { ... }; line 111 drops the guard.
PollCheckResync ==
    /\ ppc = "l101"
    /\ IF needs_resync
         THEN /\ ppc' = "l104"
              /\ entered' = TRUE
              /\ rlock' = rlock
         ELSE /\ ppc' = "l115"
              /\ entered' = entered
              /\ rlock' = "free"
    /\ UNCHANGED <<version, vlock, needs_resync, resource_version, slept, requests, reqVersion, result,
                   snapVersion, snapFlag, streamv, extv, ghostv>>
    /\ UNCHANGED handlev

\* Line 104: tokio::time::delay_for(dur).await completes.
PollSleep ==
    /\ ppc = "l104"
    /\ slept' = TRUE
    /\ ppc' = "l106"
    /\ UNCHANGED <<shared, resource_version, entered, requests,
                   reqVersion, result, snapVersion, snapFlag,
                   streamv, extv, ghostv>>
    /\ UNCHANGED handlev

\* The re-check with the reset left out.
PollRecheck_NoReset ==
    /\ ppc = "l106"
    /\ ppc' = "l109"
    /\ UNCHANGED <<shared, resource_version, entered, slept, requests,
                   reqVersion, result, snapVersion, snapFlag,
                   streamv, extv, ghostv>>
    /\ UNCHANGED handlev

\* Line 106: if *needs_resync { self.reset().await; }
PollRecheck ==
    /\ ppc = "l106"
    /\ ppc' = IF needs_resync THEN "l107" ELSE "l109"
    /\ UNCHANGED <<shared, resource_version, entered, slept, requests,
                   reqVersion, result, snapVersion, snapFlag,
                   streamv, extv, ghostv>>
    /\ UNCHANGED handlev

\* Lines 107, 75: reset() takes the version lock ...
PollResetLock ==
    /\ ppc = "l107"
    /\ VersionLockFree
    /\ vlock' = "poll"
    /\ ppc' = "l107w"
    /\ UNCHANGED <<version, needs_resync, rlock, resource_version, entered, slept, requests, reqVersion, result,
                   snapVersion, snapFlag, streamv, extv, ghostv>>
    /\ UNCHANGED handlev

\* ... stores 0.to_string() and drops the guard.
PollResetStore ==
    /\ ppc = "l107w"
    /\ version' = ZeroVersion
    /\ vlock' = "free"
    /\ ppc' = "l109"
    /\ UNCHANGED <<needs_resync, rlock, resource_version, entered,
                   slept, requests, reqVersion, result,
                   snapVersion, snapFlag, streamv, extv, resetSeen>>
    /\ UNCHANGED handlev

\* The guard dropped with the flag still set (to be cleared once the watch
\* is established).
PollClearResync_KeepFlag ==
    /\ ppc = "l109"
    /\ rlock' = "free"
    /\ ppc' = "l115"
    /\ UNCHANGED <<version, vlock, needs_resync, resource_version, entered,
                   slept, requests, reqVersion, result, snapVersion, snapFlag,
                   streamv, extv, ghostv>>
    /\ UNCHANGED handlev

\* Lines 109-111: *needs_resync = false; the guard is dropped.
PollClearResync ==
    /\ ppc = "l109"
    /\ needs_resync' = FALSE
    /\ rlock' = "free"
    /\ ppc' = "l115"
    /\ UNCHANGED <<version, vlock, resource_version, entered, slept,
                   requests, reqVersion, result, snapVersion,
                   snapFlag, streamv, extv, ghostv>>
    /\ UNCHANGED handlev

\* Lines 115-116: let origin = self.version.lock().await.clone(); `origin`
\* is logged and never read again, so it is not kept.
PollOrigin ==
    /\ ppc = "l115"
    /\ VersionLockFree
    /\ ppc' = "l120"
    /\ UNCHANGED <<shared, resource_version, entered, slept, requests,
                   reqVersion, result, snapVersion, snapFlag,
                   streamv, extv, ghostv>>
    /\ UNCHANGED handlev

\* Line 120: let resource_version = self.version.lock().await.clone();
PollReadVersion ==
    /\ ppc = "l120"
    /\ VersionLockFree
    /\ resource_version' = LoadVersion
    /\ ppc' = "l121"
    /\ UNCHANGED <<shared, entered, slept, requests, reqVersion,
                   result, snapVersion, snapFlag, streamv, extv,
                   ghostv>>
    /\ UNCHANGED handlev

\* A starting version that is not the one read from the cursor.
WatchVersion_NotCursor == ZeroVersion

\* The starting version line 121 passes to Api::watch.
WatchVersion == resource_version

\* Line 121: self.api.watch(&self.params, &resource_version).await? -- one
\* request; the setup fails (`?` returns the error) or a stream comes back,
\* which lines 124-166 wrap and return, replacing the caller's previous one
\* (dropped between two of its items).
PollWatch(ok) ==
    /\ ppc = "l121"
    /\ requests' = requests + 1
    /\ reqVersion' = WatchVersion
    /\ ppc' = "idle"
    /\ resource_version' = None
    /\ resetSeen' = IF resetSeen = "polling" THEN "issued" ELSE resetSeen
    /\ IF ok
         THEN /\ spc = "idle"
              /\ result' = "ok"
              /\ streamOpen' = TRUE
              /\ delivered' = <<>>
              /\ yielded' = <<>>
         ELSE /\ result' = "err"
              /\ UNCHANGED <<streamOpen, delivered, yielded>>
    /\ UNCHANGED <<shared, entered, slept, snapVersion, snapFlag, spc, event,
                   current, u, extv>>
    /\ UNCHANGED handlev

\* A failed setup retried once inside poll().
PollWatchErr_Retry ==
    /\ ppc = "l121"
    /\ requests' = requests + 1
    /\ reqVersion' = WatchVersion
    /\ IF requests = 0
         THEN /\ ppc' = "l120"
              /\ UNCHANGED <<result, resource_version, resetSeen>>
         ELSE /\ ppc' = "idle"
              /\ result' = "err"
              /\ resource_version' = None
              /\ resetSeen' = IF resetSeen = "polling" THEN "issued" ELSE resetSeen
    /\ UNCHANGED <<shared, entered, slept, snapVersion, snapFlag, streamv, extv>>
    /\ UNCHANGED handlev

PollWatchOk == PollWatch(TRUE)
PollWatchErr == PollWatch(FALSE)


\* ------------------------------------------- the interception closure
\* The underlying watch stream produces its next item and `then` hands it
\* to the closure (line 124); the closure of the previous item has finished.
\* With `rec` the item is added to the history `delivered`, of at most `max`
\* items; without it the stream is unbounded and no history is kept.
StreamNext(evs, max, rec) ==
    /\ streamOpen
    /\ spc = "idle"
    /\ rec => Len(delivered) < max
    /\ \E ev \in evs :
         /\ event' = ev
         /\ delivered' = IF rec THEN Append(delivered, ev) ELSE delivered
    /\ spc' = "l129"
    /\ UNCHANGED <<shared, pollv, streamOpen, current, u, yielded, extv, ghostv>>
    /\ UNCHANGED handlev

\* The underlying stream ends (server timeout, disconnect) or the caller
\* drops the stream between two items.
StreamEnd ==
    /\ streamOpen
    /\ spc = "idle"
    /\ streamOpen' = FALSE
    /\ UNCHANGED <<shared, pollv, spc, event, current, u, delivered, yielded,
                   extv, ghostv>>
    /\ UNCHANGED handlev

\* A missing resource version taken for a version.
HasVersion_IgnoreNone(ev) == ev.kind \in ObjectKinds

\* Line 134: the event carries an object with a resource version.
HasVersion(ev) == ev.kind \in ObjectKinds /\ ev.rv # None

\* Every WatchEvent::Error taken for a desync.
IsGone_AnyError(ev) == ev.kind = "Error"

\* Line 150: the event is WatchEvent::Error with e.code == 410.
IsGone(ev) == ev.kind = "Error" /\ ev.code = GoneCode

\* The guard of line 129 kept for the rest of the closure instead of being
\* dropped at the end of the statement.
InterceptRead_KeepGuard ==
    /\ spc = "l129"
    /\ VersionLockFree
    /\ vlock' = "stream"
    /\ current' = version
    /\ u' = IF HasVersion(event) THEN MergeVersion(version, event.rv) ELSE None
    /\ spc' = CASE HasVersion(event) -> "l145"
                [] IsGone(event) -> "l152"
                [] OTHER -> "l163"
    /\ UNCHANGED <<version, needs_resync, rlock, pollv, streamOpen, event,
                   delivered, yielded, extv, ghostv>>
    /\ UNCHANGED handlev

\* Line 129: let current = version.lock().await.clone(); then the match of
\* lines 131-162 up to its next lock: `u` is computed (136-143), or the 410
\* arm is entered, or nothing is left to do but return the event.
InterceptRead ==
    /\ spc = "l129"
    /\ VersionLockFree
    /\ current' = LoadVersion
    /\ u' = IF HasVersion(event) THEN MergeVersion(LoadVersion, event.rv) ELSE None
    /\ spc' = CASE HasVersion(event) -> "l145"
                [] IsGone(event) -> "l152"
                [] OTHER -> "l163"
    /\ UNCHANGED <<shared, pollv, streamOpen, event, delivered, yielded, extv,
                   ghostv>>
    /\ UNCHANGED handlev

\* Line 145: *version.lock().await = u; -- the lock is taken ...
InterceptStoreLock ==
    /\ spc = "l145"
    /\ VersionLockFree
    /\ vlock' = "stream"
    /\ spc' = "l145w"
    /\ UNCHANGED <<version, needs_resync, rlock, pollv, streamOpen, event, current,
                   u, delivered, yielded, extv, ghostv>>
    /\ UNCHANGED handlev

\* ... `u` is stored and the guard dropped.
InterceptStore ==
    /\ spc = "l145w"
    /\ version' = u
    /\ vlock' = "free"
    /\ spc' = "l163"
    /\ UNCHANGED <<needs_resync, rlock, pollv, streamOpen, event, current, u,
                   delivered, yielded, extv, resetSeen>>
    /\ UNCHANGED handlev

\* The cursor reset on the spot when the 410 arrives, not at the next poll().
InterceptArm_Reset ==
    /\ spc = "l152"
    /\ ResyncLockFree
    /\ VersionLockFree
    /\ needs_resync' = TRUE
    /\ version' = ZeroVersion
    /\ spc' = "l163"
    /\ UNCHANGED <<vlock, rlock, pollv, streamOpen, event, current, u,
                   delivered, yielded, extv, ghostv>>
    /\ UNCHANGED handlev

\* Line 152: *needs_resync.lock().await = true;
InterceptArm ==
    /\ spc = "l152"
    /\ ResyncLockFree
    /\ needs_resync' = TRUE
    /\ spc' = "l163"
    /\ UNCHANGED <<version, vlock, rlock, pollv, streamOpen, event, current, u,
                   delivered, yielded, extv, ghostv>>
    /\ UNCHANGED handlev

\* The closure swallowing the 410 instead of returning it.
Forwarded_SwallowGone(ev) ==
    IF ev.kind = "Error" /\ ev.code = GoneCode THEN <<>> ELSE <<ev>>

\* The items the closure returns for `event`.
Forwarded(ev) == <<ev>>

\* The stream yielding Err items twice.
InterceptYield_Twice(rec) ==
    /\ spc = "l163"
    /\ yielded' = IF rec
                    THEN yielded \o <<event>>
                           \o (IF event.kind = "Err" THEN <<event>> ELSE <<>>)
                    ELSE yielded
    /\ event' = NoEvent
    /\ current' = None
    /\ u' = None
    /\ spc' = "idle"
    /\ UNCHANGED <<shared, pollv, streamOpen, delivered, extv, ghostv>>
    /\ UNCHANGED handlev

\* Line 163: the closure returns `event`; the stream yields it (and the
\* history `yielded` records it).
InterceptYield(rec) ==
    /\ spc = "l163"
    /\ yielded' = IF rec THEN yielded \o Forwarded(event) ELSE yielded
    /\ event' = NoEvent
    /\ current' = None
    /\ u' = None
    /\ spc' = "idle"
    /\ UNCHANGED <<shared, pollv, streamOpen, delivered, extv, ghostv>>
    /\ UNCHANGED handlev

\* ------------------------------------------- calls made by another task
\* version() reading the String without taking the lock.
ExtVersion_NoLock ==
    /\ epc = "idle"
    /\ eret' = LoadVersion
    /\ UNCHANGED <<shared, pollv, streamv, epc, earg, ghostv>>
    /\ UNCHANGED handlev

\* Lines 79-83: version() locks, clones the String, unlocks.
ExtVersion ==
    /\ epc = "idle"
    /\ VersionLockFree
    /\ eret' = LoadVersion
    /\ UNCHANGED <<shared, pollv, streamv, epc, earg, ghostv>>
    /\ UNCHANGED handlev

\* Lines 74-75: reset() takes the version lock ...
ExtResetLock ==
    /\ epc = "idle"
    /\ VersionLockFree
    /\ vlock' = "ext"
    /\ epc' = "reset"
    /\ UNCHANGED <<version, needs_resync, rlock, pollv, streamv, earg, eret,
                   ghostv>>
    /\ UNCHANGED handlev

\* ... stores 0.to_string() and drops the guard.
ExtResetStore ==
    /\ epc = "reset"
    /\ version' = ZeroVersion
    /\ vlock' = "free"
    /\ resetSeen' = IF resetSeen = "polling" THEN "polling" ELSE "done"
    /\ epc' = "idle"
    /\ UNCHANGED <<needs_resync, rlock, pollv, streamv, earg, eret>>
    /\ UNCHANGED handlev

\* Lines 61-66: set_version(v) takes the version lock ...
ExtSetLock ==
    /\ epc = "idle"
    /\ VersionLockFree
    /\ \E v \in SetArgs : earg' = v
    /\ vlock' = "ext"
    /\ epc' = "set"
    /\ UNCHANGED <<version, needs_resync, rlock, pollv, streamv, eret, ghostv>>
    /\ UNCHANGED handlev

\* ... stores v and drops the guard.
ExtSetStore ==
    /\ epc = "set"
    /\ version' = earg
    /\ vlock' = "free"
    /\ resetSeen' = "none"
    /\ earg' = None
    /\ epc' = "idle"
    /\ UNCHANGED <<needs_resync, rlock, pollv, streamv, eret>>
    /\ UNCHANGED handlev

\* ------------------------------------------------ Informer values, clones
\* Lines 22-32: #[derive(Clone)] on { version: Arc<..>, api, params,
\* needs_resync: Arc<..> }. A handle is an Informer value: the allocation its
\* two Arcs point at and its own ListParams. Here each call is one step; how
\* the steps of concurrent calls interleave is the subject of Spec.
Handles == 1 .. Len(handles)
CursorOf(h) == heapVersion[handles[h].version]
FlagOf(h) == heapFlag[handles[h].needs_resync]

\* A clone that copies the cells instead of the pointers.
HandleClone_Deep(h) ==
    /\ Len(handles) < MaxHandles
    /\ heapVersion' = Append(heapVersion, CursorOf(h))
    /\ heapFlag' = Append(heapFlag, FlagOf(h))
    /\ handles' = Append(handles, [version |-> Len(heapVersion) + 1,
                                   needs_resync |-> Len(heapFlag) + 1,
                                   params |-> handles[h].params])
    /\ UNCHANGED <<closure, hret, hreq, lastCursor, lastFlag>>
    /\ UNCHANGED <<shared, pollv, streamv, extv, ghostv>>

\* Line 22: Informer::clone(): Arc::clone of both Arcs (the same
\* allocations), ListParams::clone of the parameters (a copy).
HandleClone(h) ==
    /\ Len(handles) < MaxHandles
    /\ handles' = Append(handles, handles[h])
    /\ UNCHANGED <<heapVersion, heapFlag, closure, hret, hreq,
                   lastCursor, lastFlag>>
    /\ UNCHANGED <<shared, pollv, streamv, extv, ghostv>>

\* Lines 49-52: params(mut self, lp): self.params = lp; self.
HandleParams(h, lp) ==
    /\ handles' = [handles EXCEPT ![h].params = lp]
    /\ UNCHANGED <<heapVersion, heapFlag, closure, hret, hreq,
                   lastCursor, lastFlag>>
    /\ UNCHANGED <<shared, pollv, streamv, extv, ghostv>>

\* Lines 61-69: set_version(self, v): *self.version.lock() = v.
HandleSetVersion(h, v) ==
    /\ heapVersion' = [heapVersion EXCEPT ![handles[h].version] = v]
    /\ lastCursor' = v
    /\ UNCHANGED <<heapFlag, handles, closure, hret, hreq, lastFlag>>
    /\ UNCHANGED <<shared, pollv, streamv, extv, ghostv>>

\* Lines 74-76: reset(&self): *self.version.lock() = 0.to_string().
HandleReset(h) ==
    /\ heapVersion' = [heapVersion EXCEPT ![handles[h].version] = ZeroVersion]
    /\ lastCursor' = ZeroVersion
    /\ UNCHANGED <<heapFlag, handles, closure, hret, hreq, lastFlag>>
    /\ UNCHANGED <<shared, pollv, streamv, extv, ghostv>>

\* Lines 79-83: version(&self): self.version.lock().clone().
HandleVersion(h) ==
    /\ hret' = [handle |-> h, value |-> CursorOf(h)]
    /\ UNCHANGED <<heapVersion, heapFlag, handles, closure, hreq,
                   lastCursor, lastFlag>>
    /\ UNCHANGED <<shared, pollv, streamv, extv, ghostv>>

\* Lines 95-166: poll(&self): the resync step if self.needs_resync is set
\* (lines 99-111), the request with self.params and the cursor (lines
\* 120-121), and on success a stream whose closure holds clones of this
\* handle's two Arcs (lines 114, 117, 124).
HandlePoll(h, ok) ==
    /\ heapVersion' = IF FlagOf(h)
                      THEN [heapVersion EXCEPT ![handles[h].version] = ZeroVersion]
                      ELSE heapVersion
    /\ heapFlag' = [heapFlag EXCEPT ![handles[h].needs_resync] = FALSE]
    /\ lastCursor' = IF FlagOf(h) THEN ZeroVersion ELSE lastCursor
    /\ lastFlag' = IF FlagOf(h) THEN FALSE ELSE lastFlag
    /\ hreq' = [handle |-> h,
                version |-> IF FlagOf(h) THEN ZeroVersion ELSE CursorOf(h),
                params |-> handles[h].params]
    /\ closure' = IF ok
                  THEN [version |-> handles[h].version,
                        needs_resync |-> handles[h].needs_resync]
                  ELSE closure
    /\ UNCHANGED <<handles, hret>>
    /\ UNCHANGED <<shared, pollv, streamv, extv, ghostv>>

\* Lines 124-165: the closure of the last returned stream runs on one item.
HandleIngest(ev) ==
    /\ closure # NoClosure
    /\ IF HasVersion(ev)
       THEN /\ heapVersion' =
                 [heapVersion EXCEPT ![closure.version] =
                      MergeVersion(heapVersion[closure.version], ev.rv)]
            /\ lastCursor' = MergeVersion(heapVersion[closure.version], ev.rv)
            /\ UNCHANGED <<heapFlag, lastFlag>>
       ELSE IF IsGone(ev)
       THEN /\ heapFlag' = [heapFlag EXCEPT ![closure.needs_resync] = TRUE]
            /\ lastFlag' = TRUE
            /\ UNCHANGED <<heapVersion, lastCursor>>
       ELSE UNCHANGED <<heapVersion, heapFlag, lastCursor, lastFlag>>
    /\ UNCHANGED <<handles, closure, hret, hreq>>
    /\ UNCHANGED <<shared, pollv, streamv, extv, ghostv>>

\* ------------------------------------------------------- specifications
PollStep ==
    \/ PollLockResync \/ PollCheckResync \/ PollSleep \/ PollRecheck
    \/ PollResetLock \/ PollResetStore \/ PollClearResync
    \/ PollOrigin \/ PollReadVersion \/ PollWatchOk \/ PollWatchErr

InterceptStep ==
    \/ InterceptRead \/ InterceptStoreLock \/ InterceptStore \/ InterceptArm

ExtStep ==
    \/ ExtVersion \/ ExtResetLock \/ ExtResetStore \/ ExtSetLock \/ ExtSetStore

\* Every interleaving of the task in poll(), the task consuming the stream
\* poll() returned and another task calling version(), reset() and
\* set_version() on a clone.
ConcStreamNext == StreamNext(PollEvents, 0, FALSE)
ConcYield == InterceptYield(FALSE)

Next ==
    \/ PollCall
    \/ PollStep
    \/ ConcStreamNext
    \/ StreamEnd
    \/ InterceptStep
    \/ ConcYield
    \/ ExtStep

Spec == Init /\ [][Next]_vars

\* The poll loop of the documentation of poll() (lines 87-89), in one
\* context and with no other task: poll(), consume the stream until it
\* ends, poll() again.
SerialPollCall == ~streamOpen /\ PollCall
SerialStreamNext == StreamNext(SerialEvents, MaxEvents, TRUE)
SerialYield == InterceptYield(TRUE)

NextSerial ==
    \/ SerialPollCall
    \/ PollStep
    \/ SerialStreamNext
    \/ StreamEnd
    \/ InterceptStep
    \/ SerialYield

SpecSerial == Init /\ [][NextSerial]_vars


\* The serialized loop running forever: the caller consumes each stream to
\* its end and calls poll() again, the server ends every stream, the sleep
\* and the watch request complete; no other task.
RecoverStreamNext == StreamNext(PollEvents, MaxEvents, TRUE)

NextRecover ==
    \/ SerialPollCall
    \/ PollStep
    \/ RecoverStreamNext
    \/ StreamEnd
    \/ InterceptStep
    \/ SerialYield

SpecRecover == Init /\ [][NextRecover]_vars /\ WF_vars(NextRecover)

\* The three tasks contending for the two locks, running forever: poll()
\* called again and again, a consumed stream delivering versioned events and
\* 410s, another task calling reset(). A task that can take a step
\* infinitely often takes one (a waiter on a lock gets it when it is
\* released often enough), and a store inside a lock completes.
LockEvents == {Event("Added", <<"5">>, 0), Event("Error", None, GoneCode)}
LockStreamNext == StreamNext(LockEvents, 0, FALSE)

NextLocks ==
    \/ PollCall
    \/ PollStep
    \/ LockStreamNext
    \/ StreamEnd
    \/ InterceptStep
    \/ ConcYield
    \/ ExtResetLock
    \/ ExtResetStore

SpecLocks ==
    /\ Init
    /\ [][NextLocks]_vars
    /\ SF_vars(PollStep)
    /\ SF_vars(InterceptStep)
    /\ WF_vars(ExtResetStore)

\* Any number of handles, each call through any of them, in any order.
CloneStep == \E h \in Handles : HandleClone(h)
ParamsStep == \E h \in Handles : \E lp \in ParamsArgs \cup {DefaultParams} :
                 HandleParams(h, lp)
SetVersionStep == \E h \in Handles : \E v \in SetArgs : HandleSetVersion(h, v)
ResetStep == \E h \in Handles : HandleReset(h)
VersionStep == \E h \in Handles : HandleVersion(h)
PollOkStep == \E h \in Handles : HandlePoll(h, TRUE)
PollErrStep == \E h \in Handles : HandlePoll(h, FALSE)
IngestStep == \E ev \in PollEvents : HandleIngest(ev)

NextClone ==
    \/ CloneStep
    \/ ParamsStep
    \/ SetVersionStep
    \/ ResetStep
    \/ VersionStep
    \/ PollOkStep
    \/ PollErrStep
    \/ IngestStep

SpecClone == Init /\ [][NextClone]_vars

\* One stream, returned by a poll() that started at one of IngestStarts,
\* consumed to its end by one task; nothing else runs.
InitIngest ==
    /\ version \in IngestStarts
    /\ vlock = "free"
    /\ needs_resync = FALSE
    /\ rlock = "free"
    /\ ppc = "idle"
    /\ resource_version = None
    /\ entered = FALSE
    /\ slept = FALSE
    /\ requests = 1
    /\ reqVersion = version
    /\ result = "ok"
    /\ snapVersion = None
    /\ snapFlag = FALSE
    /\ streamOpen = TRUE
    /\ spc = "idle"
    /\ event = NoEvent
    /\ current = None
    /\ u = None
    /\ delivered = <<>>
    /\ yielded = <<>>
    /\ epc = "idle"
    /\ earg = None
    /\ eret = None
    /\ resetSeen = "none"
    /\ InitHandles

IngestStreamNext == StreamNext(IngestEvents, MaxIngest, TRUE)
IngestYield == InterceptYield(TRUE)

NextIngest ==
    \/ IngestStreamNext
    \/ StreamEnd
    \/ InterceptRead
    \/ InterceptStoreLock
    \/ InterceptStore
    \/ IngestYield

SpecIngest == InitIngest /\ [][NextIngest]_vars


\* ================================================================ claims
\* Decimal strings compared as numbers of any size, without u32.
IsDecimal(s) == s # <<>> /\ \A i \in 1..Len(s) : IsDigit(s[i])

RECURSIVE StripZeros(_)
StripZeros(s) ==
    IF Len(s) > 1 /\ Head(s) = "0" THEN StripZeros(Tail(s)) ELSE s

Unsigned(s) == IF s # <<>> /\ Head(s) = "+" THEN Tail(s) ELSE s

DecLeq(a, b) ==
    LET x == StripZeros(a)
        y == StripZeros(b)
    IN  \/ Len(x) < Len(y)
        \/ /\ Len(x) = Len(y)
           /\ \/ x = y
              \/ \E i \in 1..Len(x) :
                   /\ \A j \in 1..(i - 1) : x[j] = y[j]
                   /\ DigitVal(x[i]) < DigitVal(y[i])

DecEq(a, b) == StripZeros(a) = StripZeros(b)

\* A string that parses as an unsigned 32-bit integer: an optional "+", then
\* decimal digits of a number up to 4294967295.
IsU32String(s) ==
    /\ IsDecimal(Unsigned(s))
    /\ DecLeq(Unsigned(s), <<"4", "2", "9", "4", "9", "6", "7", "2", "9", "5">>)

\* The resource versions the stream has delivered so far, in order.
RECURSIVE VersionsOf(_)
VersionsOf(evs) ==
    IF evs = <<>> THEN <<>>
    ELSE IF Head(evs).kind \in {"Added", "Modified", "Deleted"} /\ Head(evs).rv # None
      THEN <<Head(evs).rv>> \o VersionsOf(Tail(evs))
    ELSE VersionsOf(Tail(evs))

Range(f) == {f[i] : i \in DOMAIN f}

\* The cursor the stream started at and every version observed since.
Observed == {reqVersion} \cup Range(VersionsOf(delivered))

\* C1: for every sequence of Added/Modified/Deleted events whose versions
\* are base-10 unsigned integer strings, ingested with no concurrent
\* set_version()/reset(), the cursor after each event is (numerically) the
\* largest version observed so far, the starting cursor included.
C1_CursorIsMaxObserved ==
    (/\ spc = "idle"
     /\ \A v \in Observed : IsDecimal(v))
        => /\ IsDecimal(version)
           /\ \A v \in Observed : DecLeq(v, version)
           /\ \E v \in Observed : DecEq(v, version)

\* What C2 says the merge stores for (cur, nv): the decimal rendering of the
\* larger number when both parse as u32, the incoming string otherwise.
C2_Policy(cur, nv) ==
    IF IsU32String(cur) /\ IsU32String(nv)
      THEN IF DecLeq(Unsigned(cur), Unsigned(nv))
             THEN StripZeros(Unsigned(nv))
             ELSE StripZeros(Unsigned(cur))
      ELSE nv

\* C2: the merge step stores, for every pair (current, incoming), the
\* decimal rendering of max(current, incoming) when both parse as u32 and
\* the incoming string verbatim otherwise; so while no observed version
\* parses as u32 the cursor after each event is the last version observed.
C2_MergePolicy ==
    /\ [][(spc = "l129" /\ spc' = "l145")
            => u' = C2_Policy(version, event.rv)]_vars
    /\ [][(spc = "l145w" /\ spc' = "l163")
            => version' = C2_Policy(version, event.rv)]_vars
    /\ [](LET vs == VersionsOf(delivered)
          IN  (/\ spc = "idle"
               /\ vs # <<>>
               /\ \A i \in 1..Len(vs) : ~IsU32String(vs[i]))
                  => version = vs[Len(vs)])

\* A stream delivered "10" and then "07": the cursor stayed "10".
C2_Witness ==
    /\ spc = "idle"
    /\ reqVersion = ZeroVersion
    /\ VersionsOf(delivered) = << <<"1", "0">>, <<"0", "7">> >>
    /\ version = <<"1", "0">>


\* The closure is running on a WatchEvent::Error with code 410.
OnGone == spc # "idle" /\ event.kind = "Error" /\ event.code = 410

\* C3: an Error event with code 410 is yielded unchanged on the current
\* stream; consuming it performs no backoff, leaves the cursor alone and
\* does not end the stream, its only state change being needs_resync = true;
\* backoff, cursor reset and flag clearing are steps of a later poll().
C3_GoneForwarded ==
    /\ [][OnGone =>
            /\ version' = version
            /\ slept' = slept
            /\ streamOpen' /\ streamOpen
            /\ ppc' = ppc /\ ppc = "idle"
            /\ needs_resync' # needs_resync => needs_resync'
            /\ spc' = "idle" =>
                 /\ needs_resync'
                 /\ yielded' = Append(yielded, event)
                 /\ yielded' = delivered]_vars
    /\ [][(~slept /\ slept') \/ (needs_resync /\ ~needs_resync')
            => ppc \in {"l104", "l109"} /\ spc = "idle" /\ ~streamOpen]_vars

\* The stream yielded an Added and then the 410, is still open, the cursor
\* still holds the Added's version and the flag is armed.
C3_Witness ==
    /\ spc = "idle"
    /\ streamOpen
    /\ Len(yielded) = 2
    /\ yielded[1].rv = <<"7">>
    /\ yielded[2].kind = "Error" /\ yielded[2].code = 410
    /\ version = <<"7">>
    /\ needs_resync
    /\ ppc = "idle"

\* C4: a poll() called with needs_resync set completes the backoff sleep,
\* then sets the cursor to "0", then clears the flag, all before the watch
\* request; that request carries "0" and is issued with the flag false.
C4_ResyncBeforeWatch ==
    /\ [](/\ (snapFlag /\ ppc \notin {"idle", "l100", "l101"}) => entered
          /\ (snapFlag /\ ppc = "idle" /\ result # "none") => entered
          /\ ppc \in {"l106", "l107", "l107w"} => (slept /\ needs_resync)
          /\ (ppc = "l109" /\ entered)
                => (slept /\ version = <<"0">> /\ needs_resync)
          /\ (ppc \in {"l115", "l120", "l121"} /\ entered)
                => (slept /\ version = <<"0">> /\ ~needs_resync)
          /\ (ppc = "idle" /\ result # "none" /\ entered)
                => (slept /\ reqVersion = <<"0">> /\ requests = 1))
    /\ [][(requests' > requests /\ entered)
            => (requests = 0 /\ reqVersion' = <<"0">> /\ ~needs_resync
                  /\ version = <<"0">>)]_vars

\* A poll() called at cursor "7" with the flag set has issued its request.
C4_Witness ==
    /\ ppc = "idle"
    /\ result = "ok"
    /\ snapFlag
    /\ snapVersion = <<"7">>
    /\ reqVersion = <<"0">>
    /\ ~needs_resync

\* C5: after reset() has completed, the next poll() issues its watch request
\* with starting version "0", in every interleaving, events ingested between
\* the reset and that poll() included (no set_version() in between).
C5_ResetThenPollFromZero ==
    resetSeen = "issued" => reqVersion = <<"0">>

\* C6: the stream poll() returns yields exactly the items of the underlying
\* watch stream, one for one, in order and unchanged, whatever their kind.
C6_Transparent ==
    IF spc = "idle"
      THEN yielded = delivered
      ELSE /\ delivered # <<>>
           /\ yielded = SubSeq(delivered, 1, Len(delivered) - 1)
           /\ event = delivered[Len(delivered)]

\* A stream yielded an Added, the 410 and an Err item.
C6_Witness ==
    /\ spc = "idle"
    /\ Len(yielded) = 3
    /\ yielded[1].kind = "Added" /\ yielded[1].rv = <<"5">>
    /\ yielded[2].kind = "Error" /\ yielded[2].code = 410
    /\ yielded[3].kind = "Err"

\* C7 as claimed: the starting version of the request is the value stored in
\* the cursor at the moment the request is issued.
C7_RequestAtCursorOfIssue ==
    [][requests' > requests => reqVersion' = version]_vars

\* C7, amended: every call of poll() issues exactly one watch request, and
\* its starting version is the value poll() read from the cursor at line
\* 120, its last read before the request.
C7_RequestAtCursorRead ==
    /\ [][requests' > requests
            => /\ requests = 0 /\ requests' = 1
               /\ ppc' = "idle" /\ result' \in {"ok", "err"}
               /\ reqVersion' = resource_version]_vars
    /\ [][resource_version' # resource_version /\ ppc' # "idle"
            => resource_version' = version]_vars
    /\ [](/\ ppc # "idle" => requests = 0 /\ result = "none"
          /\ (ppc = "idle" /\ result # "none") => requests = 1)

\* A poll() has issued its one request at "7", read from the cursor.
C7_Witness ==
    /\ ppc = "idle"
    /\ result = "ok"
    /\ requests = 1
    /\ reqVersion = <<"7">>

\* C8: no value returned by version(), and none read by poll() or by the
\* closure, is torn: each is the value of the last completed write.
C8_NoTornRead ==
    /\ [](eret # <<"Torn">> /\ current # <<"Torn">>
            /\ resource_version # <<"Torn">> /\ u # <<"Torn">>)
    /\ [][eret' # eret => eret' = version]_vars

\* version() returned "5" while the other task and the stream were active.
C8_Witness ==
    /\ eret = <<"5">>
    /\ version = <<"0">>
    /\ spc = "l145w"

\* C9: a failed watch setup is returned as a failed call without a stream,
\* after exactly one request; if needs_resync was false when poll() was
\* called, the cursor and the flag are what they were.
C9_SetupFailure ==
    (ppc = "idle" /\ result = "err")
        => /\ requests = 1
           /\ ~streamOpen
           /\ ~snapFlag => (version = snapVersion /\ needs_resync = snapFlag)

\* A poll() called at cursor "7" with the flag clear has failed.
C9_Witness ==
    /\ ppc = "idle"
    /\ result = "err"
    /\ ~snapFlag
    /\ snapVersion = <<"7">>
    /\ version = <<"7">>

\* C10: needs_resync becomes true exactly when the closure processes an
\* Ok(WatchEvent::Error) with code 410, becomes false only in the resync
\* step of poll(), and no other operation writes it.
C10_FlagWriters ==
    /\ [][(~needs_resync /\ needs_resync')
            => /\ spc = "l152" /\ spc' = "l163"
               /\ event.kind = "Error" /\ event.code = 410]_vars
    /\ [][(needs_resync /\ ~needs_resync')
            => (ppc = "l109" /\ ppc' = "l115" /\ entered)]_vars
    /\ [][(spc # "l163" /\ spc' = "l163" /\ event.kind = "Error"
             /\ event.code = 410) => (spc = "l152" /\ needs_resync')]_vars
    /\ [](spc = "l152" => (event.kind = "Error" /\ event.code = 410))

\* The closure has armed the flag on a 410 while the other task is inside
\* set_version().
C10_Witness ==
    /\ needs_resync
    /\ spc = "l163"
    /\ event.code = 410
    /\ epc = "set"


\* The item the closure is running on, or is handed in this step.
Ingested == IF spc = "idle" THEN event' ELSE event

\* C11: ingesting an Error whose code is not 410, an Err item or an
\* Added/Modified/Deleted event without a resource version leaves the cursor
\* and needs_resync unchanged; ingesting an Added/Modified/Deleted event with
\* a version leaves needs_resync unchanged.
C11_IngestFrame ==
    [][spc' # spc =>
         /\ (\/ Ingested.kind = "Err"
             \/ Ingested.kind = "Error" /\ Ingested.code # 410
             \/ Ingested.kind \in {"Added", "Modified", "Deleted"}
                  /\ Ingested.rv = <<"None">>)
              => (version' = version /\ needs_resync' = needs_resync
                    /\ spc' \in {"l129", "l163", "idle"})
         /\ Ingested.kind \in {"Added", "Modified", "Deleted"}
              => needs_resync' = needs_resync]_vars

\* A stream at cursor "7" has yielded an Error 500, an Err item and a
\* Deleted without version: cursor and flag are what they were.
C11_Witness ==
    /\ spc = "idle"
    /\ reqVersion = <<"0">>
    /\ Len(yielded) = 3
    /\ yielded[1].kind = "Added" /\ yielded[1].rv = <<"7">>
    /\ yielded[2].kind = "Error" /\ yielded[2].code = 500
    /\ yielded[3].kind = "Deleted" /\ yielded[3].rv = <<"None">>
    /\ version = <<"7">>
    /\ ~needs_resync

\* C12: a new Informer has cursor "0" and flag false; a poll() entered with
\* the flag false does not sleep and leaves cursor and flag alone before its
\* watch request; so the first poll() after new() requests from "0".
C12_FreshPoll ==
    /\ (version = <<"0">> /\ ~needs_resync /\ ppc = "idle" /\ ~streamOpen)
    /\ [][(snapVersion = <<"None">> /\ ppc' # ppc)
            => (snapVersion' = <<"0">> /\ ~snapFlag')]_vars
    /\ [](/\ (ppc # "idle" /\ ~snapFlag)
                => (~slept /\ ~entered /\ version = snapVersion
                      /\ ~needs_resync)
          /\ (ppc = "idle" /\ result # "none" /\ ~snapFlag)
                => (~slept /\ requests = 1 /\ reqVersion = snapVersion))

\* The first poll() has issued its request from "0" without sleeping.
C12_Witness ==
    /\ ppc = "idle"
    /\ result = "ok"
    /\ snapVersion = <<"0">>
    /\ ~snapFlag
    /\ ~slept
    /\ reqVersion = <<"0">>
    /\ delivered = <<>>


\* C13: all clones share one cursor and one flag: a change made through any
\* handle or through the closure of a stream is what version() returns and
\* what the next poll() starts from on every handle; params() on one handle
\* changes neither cursor, flag nor another handle's parameters.
C13_ClonesShareCursor ==
    /\ [](\A h \in 1 .. Len(handles) :
             /\ heapVersion[handles[h].version] = lastCursor
             /\ heapFlag[handles[h].needs_resync] = lastFlag)
    /\ [][hret' # hret => hret'.value = lastCursor]_vars
    /\ [][hreq' # hreq =>
            /\ hreq'.version = (IF lastFlag THEN <<"0">> ELSE lastCursor)
            /\ hreq'.params = handles[hreq'.handle].params
            /\ ~lastFlag']_vars
    /\ [][\A h \in 1 .. Len(handles) :
            handles'[h].params # handles[h].params =>
              /\ heapVersion' = heapVersion
              /\ heapFlag' = heapFlag
              /\ Len(handles') = Len(handles)
              /\ \A g \in 1 .. Len(handles) :
                    g # h => handles'[g] = handles[g]]_vars

\* Three handles with their own parameters; a merge through the stream of
\* one was read by version() on another and started the poll() of a third.
C13_Witness ==
    /\ Len(handles) = 3
    /\ handles[1].params = "default"
    /\ handles[2].params = "lp"
    /\ lastCursor = <<"7">>
    /\ hret = [handle |-> 2, value |-> <<"7">>]
    /\ hreq = [handle |-> 3, version |-> <<"7">>, params |-> handles[3].params]


\* C14 as stated: while a resyncing poll() sleeps, a step of another task
\* that clears needs_resync is possible (and the re-check then skips the
\* reset).
C14_ClearedDuringSleep ==
    ppc = "l104" => ENABLED (Next /\ ppc' = "l104" /\ ~needs_resync')

\* C14: poll() holds the needs_resync lock from line 100 to line 111, across
\* the sleep, and no override writes the flag: during the sleep the flag
\* stays set, the re-check of line 106 always finds it set, and the poll
\* always resets the cursor to "0" before it clears the flag.
C14_FlagHeldAcrossSleep ==
    /\ [](ppc \in {"l104", "l106", "l107", "l107w", "l109"} => rlock = "poll")
    /\ [](ppc \in {"l104", "l106", "l107", "l107w"} => needs_resync)
    /\ [][(ppc \in {"l104", "l106", "l107", "l107w"})
            => (needs_resync' = needs_resync)]_vars
    /\ [][(ppc = "l106" /\ ppc' # ppc) => ppc' = "l107"]_vars
    /\ [][(ppc # "l109" /\ ppc' = "l109")
            => (ppc = "l107w" /\ slept /\ version' = <<"0">>)]_vars

\* poll() has slept and is at the re-check with the flag set, while the
\* closure of a still-consumed stream waits at line 152 for the flag's lock
\* and another task is inside set_version().
C14_Witness ==
    /\ ppc = "l106"
    /\ slept
    /\ needs_resync
    /\ rlock = "poll"
    /\ spc = "l152"
    /\ epc = "set"

\* C15: neither the version lock nor the needs_resync lock is held while
\* poll() is suspended on the backoff wait (line 104) or on the watch request
\* (line 121), so version() from another task never waits for them.
C15_NoGuardAcrossSuspension ==
    ppc \in {"l104", "l121"} => (vlock # "poll" /\ rlock # "poll")


\* C16: the merge for one event is atomic with respect to concurrent cursor
\* writes: the value the closure stores is the merge policy applied to the
\* cursor as it is when the store happens (the override value, if reset() or
\* set_version() completed while the event was being ingested), never a
\* value computed from the cursor as it was before.
C16_MergeAtomic ==
    [][(spc = "l145w" /\ spc' = "l163")
         => version' = C2_Policy(version, event.rv)]_vars


\* C17: in the serialized loop every Error(410) is eventually followed by a
\* watch request from "0" issued by a poll() that slept, after which the flag
\* is false; and whatever the number of 410s in a stream and whatever
\* follows them there, the next poll() resyncs once and a poll() after a
\* stream without 410, or after a failed poll(), does not.
C17_RecoversAfterGone ==
    /\ needs_resync ~> (/\ ppc = "idle"
                        /\ requests = 1
                        /\ entered
                        /\ slept
                        /\ reqVersion = <<"0">>
                        /\ ~needs_resync)
    /\ [][(ppc = "idle" /\ ppc' # ppc) =>
            snapFlag' = (/\ result = "ok"
                         /\ \E i \in 1 .. Len(delivered) :
                               /\ delivered[i].kind = "Error"
                               /\ delivered[i].code = 410)]_vars
    /\ [](/\ (ppc \notin {"idle", "l100", "l101"}) => (entered = snapFlag)
          /\ (ppc = "idle" /\ result # "none")
                => /\ requests = 1
                   /\ slept = snapFlag
                   /\ snapFlag => reqVersion = <<"0">>)
    /\ [][(ppc = "l121" /\ ppc' = "idle") => ~needs_resync']_vars

\* After a stream that delivered two 410s and then a versioned event, the
\* next poll() has slept and reset once and is about to request from "0".
C17_Witness ==
    /\ ppc = "l121"
    /\ Len(delivered) = 3
    /\ delivered[1].kind = "Error" /\ delivered[1].code = 410
    /\ delivered[2].kind = "Error" /\ delivered[2].code = 410
    /\ delivered[3].kind = "Added" /\ delivered[3].rv = <<"5">>
    /\ entered
    /\ slept
    /\ resource_version = <<"0">>
    /\ ~needs_resync


\* Steps poll() still has to take before it drops the needs_resync guard.
C18_Rank(pc) ==
    CASE pc = "l101" -> 6
      [] pc = "l104" -> 5
      [] pc = "l106" -> 4
      [] pc = "l107" -> 3
      [] pc = "l107w" -> 2
      [] pc = "l109" -> 1
      [] OTHER -> 0

\* C18: no task waits forever for a lock. Whoever holds the version lock is
\* not waiting for anything and can release it at once; while poll() holds
\* the needs_resync lock each of its steps brings it closer to line 111 and
\* it waits for nothing but the version lock; so the version lock is always
\* released, the needs_resync lock is released once the sleep is over, and a
\* closure waiting at line 152 gets through.
C18_NoLockWaitsForever ==
    /\ [](vlock # "free" => ENABLED (NextLocks /\ vlock' = "free"))
    /\ [](rlock = "poll" =>
            \/ ENABLED (NextLocks /\ ppc' # ppc)
            \/ (ppc = "l107" /\ vlock # "free"))
    /\ [][(rlock = "poll" /\ rlock' = "poll" /\ ppc' # ppc)
            => C18_Rank(ppc') < C18_Rank(ppc)]_vars
    /\ (vlock # "free") ~> (vlock = "free")
    /\ (ppc = "l106") ~> (rlock = "free")
    /\ (spc = "l152") ~> (spc = "l163")

\* poll() holds the needs_resync lock and waits at line 107 for the version
\* lock, which another task holds inside reset(), while the closure waits at
\* line 152 for the needs_resync lock.
C18_Witness ==
    /\ ppc = "l107"
    /\ rlock = "poll"
    /\ vlock = "ext"
    /\ epc = "reset"
    /\ spc = "l152"


\* The last consumed stream delivered a 410.
C19_GoneDelivered ==
    \E i \in 1 .. Len(delivered) :
        delivered[i].kind = "Error" /\ delivered[i].code = 410

\* C19: when the watch setup fails in a poll() entered with needs_resync
\* set, the resync has taken effect: at the failed return the flag is false
\* and the cursor "0". The poll() that retries finds the flag false, does not
\* sleep again and requests from "0".
C19_ResyncSurvivesFailure ==
    /\ []((ppc = "idle" /\ result = "err" /\ entered)
            => /\ slept
               /\ ~needs_resync
               /\ version = <<"0">>
               /\ reqVersion = <<"0">>
               /\ ~streamOpen)
    /\ [][(ppc = "idle" /\ result = "err" /\ entered /\ ppc' # ppc)
            => (~snapFlag' /\ snapVersion' = <<"0">>)]_vars
    /\ []((ppc # "idle" /\ ~snapFlag /\ C19_GoneDelivered)
            => (~entered /\ ~slept /\ ~needs_resync /\ version = <<"0">>))
    /\ [][(ppc = "l121" /\ ppc' = "idle" /\ ~snapFlag /\ C19_GoneDelivered)
            => (~slept /\ requests' = 1 /\ reqVersion' = <<"0">>)]_vars

\* The stream that moved the cursor to "7" ended with a 410, the resyncing
\* poll() failed, and the retry is about to request from "0" without having
\* slept.
C19_Witness ==
    /\ ppc = "l121"
    /\ ~snapFlag
    /\ snapVersion = <<"0">>
    /\ ~slept
    /\ resource_version = <<"0">>
    /\ Len(delivered) = 2
    /\ delivered[1].kind = "Modified" /\ delivered[1].rv = <<"7">>
    /\ delivered[2].kind = "Error" /\ delivered[2].code = 410


\* C20: the cursor changes only in the resync step of poll(), to "0" and
\* with needs_resync set; in the closure's store of the merge of an
\* Added/Modified/Deleted event's version; and in reset() and set_version().
\* The closure's steps on a 410 leave it alone, so from a 410 to the next
\* poll() the cursor moves only by such merges and overrides.
C20_CursorWriters ==
    /\ [][version' # version =>
            \/ /\ ppc = "l107w" /\ ppc' = "l109"
               /\ entered /\ slept /\ needs_resync
               /\ version' = <<"0">>
            \/ /\ spc = "l145w" /\ spc' = "l163"
               /\ event.kind \in {"Added", "Modified", "Deleted"}
               /\ event.rv # <<"None">>
               /\ version' = C2_Policy(current, event.rv)
            \/ /\ epc = "reset" /\ epc' = "idle"
               /\ version' = <<"0">>
            \/ /\ epc = "set" /\ epc' = "idle"
               /\ version' = earg]_vars
    /\ [](ppc \in {"l107", "l107w"} => (needs_resync /\ entered))
    /\ [][(spc' # spc /\ Ingested.kind = "Error") => version' = version]_vars
    /\ [][(needs_resync /\ version' # version /\ ppc' = ppc /\ epc' = epc)
            => (spc = "l145w" /\ version' = u)]_vars

\* The closure has armed the flag on a 410 and is about to return it; the
\* cursor is still the "7" an earlier event moved it to, and no poll() runs.
C20_Witness ==
    /\ spc = "l163"
    /\ event.kind = "Error" /\ event.code = 410
    /\ needs_resync
    /\ version = <<"7">>
    /\ ppc = "idle"
    /\ epc = "idle"

=============================================================================
